---------------------------- MODULE Spec2Model ----------------------------
(***************************************************************************)
(* Model of automation/src/obsidian_vault/log_analyzer.py: the line        *)
(* scanner analyse_lines with its nine detectors, the three entry points   *)
(* (lines, text, file), IssueSummary.recommendations, render_report and    *)
(* the command-line main.                                                   *)
(*                                                                         *)
(* Text is a sequence of characters, and a character is its Unicode code   *)
(* point: "Errors" is <<69, 114, 114, 111, 114, 115>>.  The character       *)
(* classes are those of Unicode 14, which CPython 3.11 uses.               *)
(*                                                                         *)
(* A Python integer has no bound.  It is held as a sign and a magnitude,   *)
(* the magnitude as its digits in base 1000, lowest first and without      *)
(* leading zero: 1234567 is [neg |-> FALSE, mag |-> <<567, 234, 1>>], and  *)
(* 0 is [neg |-> FALSE, mag |-> <<>>].  Integer(n) is the Python integer   *)
(* of a number n of the model.                                              *)
(***************************************************************************)
EXTENDS Integers, Sequences, FiniteSets, TLC

VARIABLES
    caller,      \* the entry point in use: "main", or "analyse_lines" called directly
    pc,          \* position: parse, exited, start, scan, scanned, rendered, printed,
                 \* done, raised
    argv,        \* the command line of main
    file,        \* what the path of the command line names: see FileKinds
    lines,       \* the lines handed to analyse_lines (none when no file is read)
    idx,         \* index of the next line of the for loop of analyse_lines
    summary,     \* the IssueSummary accumulator
    report,      \* result of render_report
    stdout,      \* what main printed
    status,      \* exit status of main
    error,       \* the exception that ended the run, "" when none
    given,       \* the IssueSummary handed to recommendations / render_report
    advice,      \* result of IssueSummary.recommendations on given
    rendered,    \* result of render_report on given
    text,        \* an input text
    fromText,    \* analyse_log_text(text)
    fromLines,   \* analyse_lines on text pre-split into lines
    fromFile     \* analyse_log_file on a file holding text

vars == <<caller, pc, argv, file, lines, idx, summary, report, stdout, status, error,
          given, advice, rendered, text, fromText, fromLines, fromFile>>

mainVars == <<caller, pc, argv, file, lines, idx, summary, report, stdout, status, error>>
summaryVars == <<given, advice, rendered>>
textVars == <<text, fromText, fromLines, fromFile>>

----------------------------------------------------------------------------
(* Bounds *)

MaxLines == 3
MaxOscillations == 1
MaxCount == 1
MaxMetric == 1
MaxFragments == 3
MaxArgs == 2

----------------------------------------------------------------------------
(* Characters and strings *)

LineFeed == 10            \* "\n"
CarriageReturn == 13      \* "\r"
Apostrophe == 39          \* "'"
PlusSign == 43            \* "+"
HyphenMinus == 45         \* "-"
Underscore == 95          \* "_"
Border == 9474            \* U+2502 BOX DRAWINGS LIGHT VERTICAL

MinOf(S) == CHOOSE x \in S : \A y \in S : x <= y
MaxOf(S) == 0 - MinOf({0 - x : x \in S})

\* e, once x is evaluated.  (An operator's argument is evaluated where it is
\* first used; a long chain of pending arguments is avoided by evaluating each
\* before the next step.)
After(x, e) == IF x = x THEN e ELSE e

\* re.IGNORECASE on a str pattern: a pattern character that is a lower-case
\* ASCII letter matches the letter, its capital, and for "i" U+0130 and U+0131,
\* for "s" U+017F, for "k" U+212A; every other character of the two patterns
\* matches itself only.  FoldCase maps each character to the pattern
\* character it matches.
FoldCase(c) ==
    IF c \in 65..90 THEN c + 32
    ELSE IF c \in {304, 305} THEN 105
    ELSE IF c = 383 THEN 115
    ELSE IF c = 8490 THEN 107
    ELSE c
fold(s) == [i \in 1..Len(s) |-> FoldCase(s[i])]

\* str.lower() of a string over [0-9A-Fa-f]
LowerChar(c) == IF c \in 65..70 THEN c + 32 ELSE c
lower(s) == [i \in 1..Len(s) |-> LowerChar(s[i])]

\* the code points of the digit zero of each decimal digit block (category
\* Nd); the digits of a block follow its zero in order
DecimalZeros ==
    {48, 1632, 1776, 1984, 2406, 2534, 2662, 2790, 2918, 3046, 3174, 3302, 3430,
     3558, 3664, 3792, 3872, 4160, 4240, 6112, 6160, 6470, 6608, 6784, 6800,
     6992, 7088, 7232, 7248, 42528, 43216, 43264, 43472, 43504, 43600, 44016,
     65296, 66720, 68912, 69734, 69872, 69942, 70096, 70384, 70736, 70864,
     71248, 71360, 71472, 71904, 72016, 72784, 73040, 73120, 92768, 92864,
     93008, 120782, 120792, 120802, 120812, 120822, 123200, 123632, 125264,
     130032}

\* \d of a str pattern, and the digits int() accepts
IsDigit(c) ==
    IF c < 128 THEN c \in 48..57 ELSE \E z \in DecimalZeros : c - z \in 0..9
DigitValue(c) ==
    IF c < 128 THEN c - 48 ELSE c - MaxOf({z \in DecimalZeros : z <= c})

\* [0-9A-Fa-f]
IsHexDigit(c) == c \in 48..57 \/ c \in 65..70 \/ c \in 97..102

\* the characters str.split() separates at (str.isspace)
Whitespace ==
    {9, 10, 11, 12, 13, 28, 29, 30, 31, 32, 133, 160, 5760, 8192, 8193, 8194,
     8195, 8196, 8197, 8198, 8199, 8200, 8201, 8202, 8232, 8233, 8239, 8287,
     12288}
IsSpace(c) == c \in Whitespace

\* pat occurs in s at index i
StartsAt(pat, s, i) ==
    /\ i >= 1
    /\ i + Len(pat) - 1 <= Len(s)
    /\ \A k \in 1..Len(pat) : s[i + k - 1] = pat[k]

\* Python's `pat in s`
Contains(pat, s) == \E i \in 1..(Len(s) - Len(pat) + 1) : StartsAt(pat, s, i)

\* Optional values: None, or Some(v)
None == [some |-> FALSE, val |-> 0]
Some(v) == [some |-> TRUE, val |-> v]

NoMatch == [found |-> FALSE, group |-> <<>>]
Match(g) == [found |-> TRUE, group |-> g]

----------------------------------------------------------------------------
(* Python integers *)

Base == 1000

RECURSIVE Pow2(_)
Pow2(n) == IF n = 0 THEN 1 ELSE 2 * Pow2(n - 1)

\* a without its leading zeros
StripZeros(a) ==
    LET NonZero == {i \in 1..Len(a) : a[i] # 0}
    IN  IF NonZero = {} THEN <<>> ELSE SubSeq(a, 1, MaxOf(NonZero))

\* the magnitude n, for 0 <= n < 2^31
Magnitude(n) ==
    StripZeros(<<n % Base, (n \div Base) % Base, (n \div (Base * Base)) % Base,
                 n \div (Base * Base * Base)>>)

\* the integer n, for -2^31 < n < 2^31
Integer(n) == [neg |-> n < 0, mag |-> Magnitude(IF n < 0 THEN 0 - n ELSE n)]

Limb(a, k) == IF k >= 1 /\ k <= Len(a) THEN a[k] ELSE 0

\* the magnitude of a sequence of decimal digits, highest first
FromDigits(ds) ==
    LET n == Len(ds)
        D(p) == IF p < n THEN ds[n - p] ELSE 0
    IN  StripZeros([k \in 1..((n + 2) \div 3) |->
                       D(3 * k - 3) + 10 * D(3 * k - 2) + 100 * D(3 * k - 1)])

\* the decimal digits of a magnitude, as characters
Decimal(a) ==
    LET n == Len(a)
        top == IF a[n] >= 100 THEN 3 ELSE IF a[n] >= 10 THEN 2 ELSE 1
        total == top + 3 * (n - 1)
        Digit(p) ==
            (a[p \div 3 + 1] \div (IF p % 3 = 0 THEN 1 ELSE IF p % 3 = 1 THEN 10 ELSE 100)) % 10
    IN  IF a = <<>> THEN <<48>> ELSE [i \in 1..total |-> 48 + Digit(total - i)]

\* the digits c[lo..hi] with the carry cin taken in: limbs below Base, and the
\* carry out
RECURSIVE Carry(_, _, _, _)
Carry(c, lo, hi, cin) ==
    IF lo = hi
    THEN [limbs |-> <<(c[lo] + cin) % Base>>, out |-> (c[lo] + cin) \div Base]
    ELSE LET mid == (lo + hi) \div 2
             low == Carry(c, lo, mid, cin)
             high == Carry(c, mid + 1, hi, low.out)
         IN  After(low, [limbs |-> low.limbs \o high.limbs, out |-> high.out])

\* the magnitude whose digit k is worth c[k], each c[k] a natural number
Normalize(c) ==
    IF c = <<>> THEN <<>>
    ELSE LET r == Carry(c, 1, Len(c), 0)
         IN  StripZeros(r.limbs \o <<r.out % Base, (r.out \div Base) % Base,
                                    r.out \div (Base * Base)>>)

Add(a, b) ==
    LET n == IF Len(a) > Len(b) THEN Len(a) ELSE Len(b)
    IN  Normalize([k \in 1..n |-> Limb(a, k) + Limb(b, k)])

\* the sum of a[k + 1 - j] * b[j] for j in lo..hi
RECURSIVE Dot(_, _, _, _, _)
Dot(a, b, k, lo, hi) ==
    IF lo > hi THEN 0
    ELSE IF lo = hi THEN a[k + 1 - lo] * b[lo]
    ELSE LET mid == (lo + hi) \div 2
         IN  Dot(a, b, k, lo, mid) + Dot(a, b, k, mid + 1, hi)

\* a * b, the shorter of the two of at most 2000 digits
Mul(a, b) ==
    LET long == IF Len(a) >= Len(b) THEN a ELSE b
        short == IF Len(a) >= Len(b) THEN b ELSE a
        First(k) == IF k + 1 - Len(long) > 1 THEN k + 1 - Len(long) ELSE 1
        Last(k) == IF k < Len(short) THEN k ELSE Len(short)
    IN  IF short = <<>> THEN <<>>
        ELSE Normalize([k \in 1..(Len(long) + Len(short) - 1) |->
                           Dot(long, short, k, First(k), Last(k))])

\* -1, 0 or 1 as a < b, a = b or a > b
Cmp(a, b) ==
    LET Differ == {i \in 1..Len(a) : a[i] # b[i]}
        top == MaxOf(Differ)
    IN  IF Len(a) # Len(b) THEN (IF Len(a) < Len(b) THEN 0 - 1 ELSE 1)
        ELSE IF Differ = {} THEN 0
        ELSE IF a[top] < b[top] THEN 0 - 1 ELSE 1

\* 2^n
RECURSIVE PowerOfTwo(_)
PowerOfTwo(n) ==
    IF n <= 30 THEN Magnitude(Pow2(n))
    ELSE LET half == PowerOfTwo(n \div 2)
             square == Mul(half, half)
         IN  IF n % 2 = 1 THEN Add(square, square) ELSE square

\* the digits of a[lo..hi] \div d, from the highest down, with the remainder
\* rin of the digits above taken in, and the remainder
RECURSIVE DivLimbs(_, _, _, _, _)
DivLimbs(a, d, hi, lo, rin) ==
    IF hi = lo
    THEN [limbs |-> <<(rin * Base + a[hi]) \div d>>, rem |-> (rin * Base + a[hi]) % d]
    ELSE LET mid == (hi + lo) \div 2
             high == DivLimbs(a, d, hi, mid + 1, rin)
             low == DivLimbs(a, d, mid, lo, high.rem)
         IN  After(high, [limbs |-> low.limbs \o high.limbs, rem |-> low.rem])

\* a \div d, for 0 < d <= 2^20
ShortDiv(a, d) ==
    IF a = <<>> THEN <<>> ELSE StripZeros(DivLimbs(a, d, Len(a), 1, 0).limbs)

\* a \div 2^k
RECURSIVE DivPow2(_, _)
DivPow2(a, k) ==
    IF k <= 20 THEN ShortDiv(a, Pow2(k)) ELSE DivPow2(ShortDiv(a, Pow2(20)), k - 20)

Odd(a) == a # <<>> /\ a[1] % 2 = 1

\* num / den rounded to the nearest natural number, half to even, given
\* floor = num \div den
RoundHalfEven(num, den, floor) ==
    LET side == Cmp(Add(num, num), Mul(Add(Add(floor, floor), Magnitude(1)), den))
    IN  IF side > 0 \/ (side = 0 /\ Odd(floor)) THEN Add(floor, Magnitude(1)) ELSE floor

\* v > w
Greater(v, w) ==
    IF v.neg # w.neg THEN w.neg
    ELSE IF v.neg THEN Cmp(v.mag, w.mag) < 0
    ELSE Cmp(v.mag, w.mag) > 0

\* v > 0
Positive(v) == ~v.neg /\ v.mag # <<>>

\* sys.get_int_max_str_digits(): the longest digit string int() converts and
\* the longest str() produces
IntMaxStrDigits == 4300

\* str(v), also f"{v}": ValueError (ok = FALSE) for more than IntMaxStrDigits
\* digits
str(v) ==
    LET digits == Decimal(v.mag)
    IN  IF Len(digits) > IntMaxStrDigits THEN [ok |-> FALSE, text |-> <<>>]
        ELSE [ok |-> TRUE,
              text |-> (IF v.neg THEN <<HyphenMinus>> ELSE <<>>) \o digits]

----------------------------------------------------------------------------
(* The compiled patterns; each operator is pattern.search(line) *)

\* "Type name '"
MissingBackticksHead ==
  <<84, 121, 112, 101, 32, 110, 97, 109, 101, 32, 39>>
\* "' found without backticks"
MissingBackticksTail ==
  <<39, 32, 102, 111, 117, 110, 100, 32, 119, 105, 116, 104, 111, 117, 116,
     32, 98, 97, 99, 107, 116, 105, 99, 107, 115>>

\* re.compile(r"Type name '([^']+)' found without backticks").search(line);
\* group is group(1)
MISSING_BACKTICKS_RE(line) ==
    LET g(i) == i + Len(MissingBackticksHead)
        Quotes(i) == {j \in g(i)..Len(line) : line[j] = Apostrophe}
        q(i) == MinOf(Quotes(i))
        At(i) == /\ StartsAt(MissingBackticksHead, line, i)
                 /\ Quotes(i) # {}
                 /\ q(i) > g(i)
                 /\ StartsAt(MissingBackticksTail, line, q(i))
        I == {i \in 1..Len(line) : At(i)}
    IN  IF I = {} THEN NoMatch
        ELSE Match(SubSeq(line, g(MinOf(I)), q(MinOf(I)) - 1))

\* "Oscillation detected"
OscillationHead ==
  <<79, 115, 99, 105, 108, 108, 97, 116, 105, 111, 110, 32, 100, 101, 116,
     101, 99, 116, 101, 100>>

\* re.compile(r"Oscillation detected.*").search(line); group is group(0).
\* "." matches every character except "\n".
OSCILLATION_RE(line) ==
    LET I == {i \in 1..Len(line) : StartsAt(OscillationHead, line, i)}
        i0 == MinOf(I)
        Breaks == {j \in (i0 + Len(OscillationHead))..Len(line) : line[j] = LineFeed}
        last == IF Breaks = {} THEN Len(line) ELSE MinOf(Breaks) - 1
    IN  IF I = {} THEN NoMatch ELSE Match(SubSeq(line, i0, last))

\* "unacceptable character #x"
UnacceptableCharHead ==
  <<117, 110, 97, 99, 99, 101, 112, 116, 97, 98, 108, 101, 32, 99, 104, 97,
     114, 97, 99, 116, 101, 114, 32, 35, 120>>

\* re.compile(r"unacceptable character #x([0-9A-Fa-f]{4})").search(line);
\* group is group(1)
UNACCEPTABLE_CHAR_RE(line) ==
    LET g(i) == i + Len(UnacceptableCharHead)
        At(i) == /\ StartsAt(UnacceptableCharHead, line, i)
                 /\ g(i) + 3 <= Len(line)
                 /\ \A k \in 0..3 : IsHexDigit(line[g(i) + k])
        I == {i \in 1..Len(line) : At(i)}
    IN  IF I = {} THEN NoMatch
        ELSE Match(SubSeq(line, g(MinOf(I)), g(MinOf(I)) + 3))

\* "Recursion limit of "
RecursionLimitHead ==
  <<82, 101, 99, 117, 114, 115, 105, 111, 110, 32, 108, 105, 109, 105, 116,
     32, 111, 102, 32>>
\* " reached"
RecursionLimitTail ==
  <<32, 114, 101, 97, 99, 104, 101, 100>>

\* re.compile(r"Recursion limit of (\d+) reached").search(line); group is
\* group(1).  \d matches every decimal digit of Unicode.
RECURSION_LIMIT_RE(line) ==
    LET g(i) == i + Len(RecursionLimitHead)
        NonDigits(i) == {j \in g(i)..Len(line) : ~IsDigit(line[j])}
        e(i) == MinOf(NonDigits(i))
        At(i) == /\ StartsAt(RecursionLimitHead, line, i)
                 /\ NonDigits(i) # {}
                 /\ e(i) > g(i)
                 /\ StartsAt(RecursionLimitTail, line, e(i))
        I == {i \in 1..Len(line) : At(i)}
    IN  IF I = {} THEN NoMatch
        ELSE Match(SubSeq(line, g(MinOf(I)), e(MinOf(I)) - 1))

\* "status set to 'draft'"
StatusDraftText ==
  <<115, 116, 97, 116, 117, 115, 32, 115, 101, 116, 32, 116, 111, 32, 39,
     100, 114, 97, 102, 116, 39>>

\* re.compile(r"status set to 'draft'", re.IGNORECASE).search(line) is not None
STATUS_DRAFT_RE(line) ==
    LET folded == fold(line) IN Contains(StatusDraftText, folded)

\* "future date"
FutureDateText ==
  <<102, 117, 116, 117, 114, 101, 32, 100, 97, 116, 101>>
\* "future-looking date"
FutureLookingDateText ==
  <<102, 117, 116, 117, 114, 101, 45, 108, 111, 111, 107, 105, 110, 103,
     32, 100, 97, 116, 101>>

\* re.compile(r"future(?:-looking)? dates?", re.IGNORECASE).search(line) is not None
FUTURE_DATE_RE(line) ==
    LET folded == fold(line)
    IN  Contains(FutureDateText, folded) \/ Contains(FutureLookingDateText, folded)

\* "argument of type 'NoneType' is not iterable"
NoneTypeText ==
  <<97, 114, 103, 117, 109, 101, 110, 116, 32, 111, 102, 32, 116, 121, 112,
     101, 32, 39, 78, 111, 110, 101, 84, 121, 112, 101, 39, 32, 105, 115,
     32, 110, 111, 116, 32, 105, 116, 101, 114, 97, 98, 108, 101>>
\* "Notes Processed"
NotesProcessedText ==
  <<78, 111, 116, 101, 115, 32, 80, 114, 111, 99, 101, 115, 115, 101,
     100>>
\* "Errors"
ErrorsText ==
  <<69, 114, 114, 111, 114, 115>>
\* "Metric"
MetricText ==
  <<77, 101, 116, 114, 105, 99>>

----------------------------------------------------------------------------
(* _extract_last_int_from *)

\* str.split(): the maximal runs of non-whitespace characters
split(s) ==
    LET n == Len(s)
        IsFirst(i) == ~IsSpace(s[i]) /\ (i = 1 \/ IsSpace(s[i - 1]))
        IsLast(i) == ~IsSpace(s[i]) /\ (i = n \/ IsSpace(s[i + 1]))
        first == SelectSeq([i \in 1..n |-> i], IsFirst)
        last == SelectSeq([i \in 1..n |-> i], IsLast)
    IN  [k \in 1..Len(first) |-> SubSeq(s, first[k], last[k])]

\* token.strip("│")
strip(token) ==
    LET n == Len(token)
        Leading == {k \in 0..(n - 1) : token[k + 1] # Border}
        Trailing == {k \in 0..(n - 1) : token[n - k] # Border}
    IN  IF Leading = {} THEN <<>>
        ELSE SubSeq(token, MinOf(Leading) + 1, n - MinOf(Trailing))

\* int(token): an optional sign, then decimal digits of any script, single
\* underscores allowed between digits; anything else raises ValueError
\* (ok = FALSE), and so do more than IntMaxStrDigits digits.  A token of
\* str.split() holds no whitespace for int to strip.
int(token) ==
    LET signed == token # <<>> /\ token[1] \in {PlusSign, HyphenMinus}
        body == IF signed THEN Tail(token) ELSE token
        n == Len(body)
        valid == /\ n > 0
                 /\ \A i \in 1..n :
                       \/ IsDigit(body[i])
                       \/ /\ body[i] = Underscore
                          /\ i > 1 /\ i < n
                          /\ IsDigit(body[i - 1]) /\ IsDigit(body[i + 1])
        digits == SelectSeq(body, IsDigit)
        magnitude == FromDigits([i \in 1..Len(digits) |-> DigitValue(digits[i])])
    IN  IF ~valid \/ Len(digits) > IntMaxStrDigits THEN [ok |-> FALSE, val |-> Integer(0)]
        ELSE [ok |-> TRUE,
              val |-> [neg |-> signed /\ token[1] = HyphenMinus /\ magnitude # <<>>,
                       mag |-> magnitude]]

\* for token in reversed(line.split()): the loop returns at the last token of
\* the line that is not empty once stripped and that int() converts
extract_last_int_from(line) ==
    LET tokens == split(line)
        Converts(k) == strip(tokens[k]) # <<>> /\ int(strip(tokens[k])).ok
        hits == SelectSeq([k \in 1..Len(tokens) |-> k], Converts)
    IN  IF hits = <<>> THEN None
        ELSE Some(int(strip(tokens[hits[Len(hits)]])).val)

----------------------------------------------------------------------------
(* IssueSummary and the loop body of analyse_lines *)

IssueSummary ==
    [oscillation_messages |-> <<>>,
     missing_backticks |-> {},
     unacceptable_control_codes |-> {},
     recursion_limit_hits |-> 0,
     qa_verification_none_errors |-> 0,
     draft_status_notes |-> 0,
     future_dated_metadata_notes |-> 0,
     notes_processed |-> None,
     notes_with_errors |-> None]

DetectMissingBackticks(s, line) ==
    LET match == MISSING_BACKTICKS_RE(line)
    IN  IF match.found
        THEN [s EXCEPT !.missing_backticks = @ \cup {match.group}]
        ELSE s

DetectOscillation(s, line) ==
    LET match == OSCILLATION_RE(line)
    IN  IF match.found
        THEN [s EXCEPT !.oscillation_messages = Append(@, match.group)]
        ELSE s

DetectUnacceptableChar(s, line) ==
    LET match == UNACCEPTABLE_CHAR_RE(line)
    IN  IF match.found
        THEN [s EXCEPT !.unacceptable_control_codes = @ \cup {lower(match.group)}]
        ELSE s

DetectRecursionLimit(s, line) ==
    LET match == RECURSION_LIMIT_RE(line)
    IN  IF match.found
        THEN [s EXCEPT !.recursion_limit_hits = @ + 1]
        ELSE s

DetectQaNone(s, line) ==
    IF Contains(NoneTypeText, line)
    THEN [s EXCEPT !.qa_verification_none_errors = @ + 1]
    ELSE s

DetectDraftStatus(s, line) ==
    IF STATUS_DRAFT_RE(line)
    THEN [s EXCEPT !.draft_status_notes = @ + 1]
    ELSE s

\* DetectFutureDate written as the `elif` of the draft-status check
DetectFutureDateElif(s, line) ==
    IF STATUS_DRAFT_RE(line) THEN s
    ELSE IF FUTURE_DATE_RE(line)
         THEN [s EXCEPT !.future_dated_metadata_notes = @ + 1]
         ELSE s

DetectFutureDate(s, line) ==
    IF FUTURE_DATE_RE(line)
    THEN [s EXCEPT !.future_dated_metadata_notes = @ + 1]
    ELSE s

\* DetectNotesProcessed assigning the extraction result without the None test
DetectNotesProcessedUnchecked(s, line) ==
    IF Contains(NotesProcessedText, line)
    THEN [s EXCEPT !.notes_processed = extract_last_int_from(line)]
    ELSE s

DetectNotesProcessed(s, line) ==
    IF Contains(NotesProcessedText, line)
    THEN LET value == extract_last_int_from(line)
         IN  IF value.some THEN [s EXCEPT !.notes_processed = value] ELSE s
    ELSE s

\* DetectErrors keeping the largest value seen in place of the last
DetectErrorsKeepMax(s, line) ==
    IF Contains(ErrorsText, line) /\ ~Contains(MetricText, line)
    THEN LET value == extract_last_int_from(line)
         IN  IF value.some /\ (~s.notes_with_errors.some
                               \/ Greater(value.val, s.notes_with_errors.val))
             THEN [s EXCEPT !.notes_with_errors = value]
             ELSE s
    ELSE s

DetectErrors(s, line) ==
    IF Contains(ErrorsText, line) /\ ~Contains(MetricText, line)
    THEN LET value == extract_last_int_from(line)
         IN  IF value.some THEN [s EXCEPT !.notes_with_errors = value] ELSE s
    ELSE s

\* one iteration of `for line in lines`
ScanLine(s, line) ==
    LET s1 == DetectMissingBackticks(s, line)
        s2 == DetectOscillation(s1, line)
        s3 == DetectUnacceptableChar(s2, line)
        s4 == DetectRecursionLimit(s3, line)
        s5 == DetectQaNone(s4, line)
        s6 == DetectDraftStatus(s5, line)
        s7 == DetectFutureDate(s6, line)
        s8 == DetectNotesProcessed(s7, line)
    IN  DetectErrors(s8, line)

\* the loop over the lines lo..hi of ls, from the summary s
RECURSIVE ScanRange(_, _, _, _)
ScanRange(s, ls, lo, hi) ==
    IF lo > hi THEN s
    ELSE IF lo = hi THEN ScanLine(s, ls[lo])
    ELSE LET mid == (lo + hi) \div 2
             first == ScanRange(s, ls, lo, mid)
         IN  After(first, ScanRange(first, ls, mid + 1, hi))

analyse_lines(ls) == ScanRange(IssueSummary, ls, 1, Len(ls))

----------------------------------------------------------------------------
(* analyse_log_text and analyse_log_file *)

\* the line boundaries of str.splitlines(): \n, \v, \f, \r, U+001C, U+001D,
\* U+001E, U+0085, U+2028, U+2029
LineBreaks == {10, 11, 12, 13, 28, 29, 30, 133, 8232, 8233}
IsLineBreak(c) == c \in LineBreaks

\* the lines of t, each ended by a character of ends, "\r\n" counting as one
\* if crlf; no empty last line is produced for a text that ends
\* with a line boundary
Lines(t, ends, crlf) ==
    LET n == Len(t)
        CrOfCrLf(i) == crlf /\ t[i] = CarriageReturn /\ i < n /\ t[i + 1] = LineFeed
        IsCut(i) == t[i] \in ends /\ ~CrOfCrLf(i)
        cuts == SelectSeq([i \in 1..n |-> i], IsCut)
        First(k) == IF k = 1 THEN 1 ELSE cuts[k - 1] + 1
        Last(k) == IF k > Len(cuts) THEN n
                   ELSE IF cuts[k] > 1 /\ CrOfCrLf(cuts[k] - 1) THEN cuts[k] - 2
                   ELSE cuts[k] - 1
        count == IF n = 0 THEN 0
                 ELSE IF cuts # <<>> /\ cuts[Len(cuts)] = n THEN Len(cuts)
                 ELSE Len(cuts) + 1
    IN  [k \in 1..count |-> SubSeq(t, First(k), Last(k))]

\* splitlines ending a line at "\n" only
SplitOnLineFeed(t) == Lines(t, {LineFeed}, FALSE)

\* str.splitlines()
splitlines(t) == Lines(t, LineBreaks, TRUE)

analyse_log_text(t) == analyse_lines(splitlines(t))

\* Path.read_text(encoding="utf-8") on a file whose bytes are the UTF-8
\* encoding of content: the file is opened in text mode with universal
\* newlines, so "\r\n" and a lone "\r" are read as "\n"
read_text(content) ==
    LET n == Len(content)
        CrOfCrLf(i) == content[i] = CarriageReturn /\ i < n /\ content[i + 1] = LineFeed
        Kept(i) == ~CrOfCrLf(i)
        kept == SelectSeq([i \in 1..n |-> i], Kept)
    IN  [k \in 1..Len(kept) |->
            IF content[kept[k]] = CarriageReturn THEN LineFeed ELSE content[kept[k]]]

\* analyse_log_file on a readable file holding content
analyse_log_file(content) == analyse_log_text(read_text(content))

----------------------------------------------------------------------------
(* IssueSummary.recommendations and render_report *)

\* a call that has not been made, one that raised, one that returned
NotCalled == [state |-> "none"]
Raised(e) == [state |-> "raised", error |-> e]
Returned(v) == [state |-> "returned", value |-> v]

\* a < b in the order of Python's str comparison (by code point)
StrLess(a, b) ==
    \E k \in 1..(Len(a) + 1) :
        /\ k <= Len(b)
        /\ \A j \in 1..(k - 1) : a[j] = b[j]
        /\ (k = Len(a) + 1 \/ a[k] < b[k])

\* sorted(S) for a set of strings: the string at index i has i - 1 smaller ones
sorted(S) ==
    [i \in 1..Cardinality(S) |->
        CHOOSE x \in S : Cardinality({y \in S : StrLess(y, x)}) = i - 1]

\* (a * 2^n) mod m, for m < 2^21, ten doublings at a time
RECURSIVE MulPow2Mod(_, _, _)
MulPow2Mod(a, n, m) ==
    IF n < 10 THEN ((a % m) * Pow2(n)) % m
    ELSE MulPow2Mod(((a % m) * 1024) % m, n - 10, m)

\* "inf%"
InfPercent ==
  <<105, 110, 102, 37>>

\* For an odd c, the quotient c / 2000 is a rate whose percentage c / 20 lies
\* midway between two values of one decimal.  The code rounds the double
\* d = fl(fl(c / 2000) * 100): the division and the multiplication by 100 (of
\* format type "%") each round to 53 bits, half to even.  HalfwaySide(c) is
\* the sign of d - c / 20:
\*   fl(c / 2000) = M / 2^s with 2^52 <= M < 2^53 and c * 2^s = 2000 * M + rho;
\*   100 * M has 59 or 60 bits, of which the last g = 6 or 7 are rounded away,
\*   which adds delta / 2^s;  d - c / 20 = (20 * delta - rho) / (20 * 2^s).
HalfwaySide(c) ==
    LET t == CHOOSE k \in (0 - 11)..20 :
                 IF k >= 0
                 THEN c \div Pow2(k) >= 2000 /\ c \div Pow2(k + 1) < 2000
                 ELSE c < 2000 /\ c * Pow2(0 - k) >= 2000 /\ c * Pow2(0 - k - 1) < 2000
        s == 52 - t
        rem == MulPow2Mod(c, s, 2000)
        rho == IF rem > 1000 THEN rem - 2000 ELSE rem
        M256 == ((MulPow2Mod(c, s, 512000) - rho) % 512000) \div 2000
        j == 59 - s
        wide == IF j >= 0 THEN c \div Pow2(j) >= 20 ELSE c * Pow2(0 - j) >= 20
        g == IF wide THEN 7 ELSE 6
        N256 == (100 * M256) % 256
        r == N256 % Pow2(g)
        half == Pow2(g - 1)
        up == r > half \/ (r = half /\ (N256 \div Pow2(g)) % 2 = 1)
        delta == IF up THEN Pow2(g) - r ELSE 0 - r
        v == 20 * delta - rho
    IN  IF v > 0 THEN 1 ELSE IF v < 0 THEN 0 - 1 ELSE 0

\* the text of a number of tenths of a percent: "12.3%" for 123
TenthsText(minus, tenths) ==
    LET ds == Decimal(tenths)
    IN  (IF minus THEN <<HyphenMinus>> ELSE <<>>)
        \o (IF Len(ds) = 1 THEN <<48>> ELSE SubSeq(ds, 1, Len(ds) - 1))
        \o <<46, ds[Len(ds)], 37>>

\* the tenths of a percent of a rate q / 1000 + r / (1000 * b), seen the side
\* of the double for a quotient midway between two tenths
Tenths(q, r, b, side) ==
    IF r < b - r THEN q
    ELSE IF r > b - r THEN q + 1
    ELSE IF side > 0 THEN q + 1
    ELSE IF side < 0 THEN q
    ELSE IF q % 2 = 0 THEN q ELSE q + 1

\* RateText for errors < 10^6 and processed < 10^9, in the numbers of the
\* model.  The double is within 2^-51 of the quotient, so the text is the
\* quotient rounded to the nearest tenth of a percent unless the quotient lies
\* midway between two tenths; then the side of the double decides, and
\* half-to-even if it lies midway too.
SmallRateText(minus, errors, processed) ==
    LET q == (1000 * errors) \div processed
        r == (1000 * errors) % processed
    IN  Returned(TenthsText(minus,
            Magnitude(Tenths(q, r, processed, HalfwaySide(2 * q + 1)))))

\* the largest t in lo..(hi - 1) with e >= 2^t * p, which holds for t = lo and
\* not for t = hi
RECURSIVE Exponent(_, _, _, _)
Exponent(e, p, lo, hi) ==
    LET mid == (lo + hi) \div 2
        ge == IF mid >= 0 THEN Cmp(e, Mul(PowerOfTwo(mid), p)) >= 0
              ELSE Cmp(Mul(e, PowerOfTwo(0 - mid)), p) >= 0
    IN  IF hi - lo <= 1 THEN lo
        ELSE IF ge THEN Exponent(e, p, mid, hi) ELSE Exponent(e, p, lo, mid)

\* m with each of the bits hi..lo added, from the highest down, where the sum
\* times b stays within a: a \div b, when m holds its bits above hi
RECURSIVE Quotient(_, _, _, _, _)
Quotient(a, b, m, hi, lo) ==
    IF hi = lo
    THEN LET c == Add(m, PowerOfTwo(hi)) IN IF Cmp(Mul(c, b), a) <= 0 THEN c ELSE m
    ELSE LET mid == (hi + lo) \div 2
             upper == Quotient(a, b, m, hi, mid + 1)
         IN  After(upper, Quotient(a, b, upper, mid, lo))

\* f"{x:.1%}" for the double x = Q * 2^u, 2^52 <= Q <= 2^53, of which 100
\* times is taken already: "inf%" from 2^1024 on, else the exact decimal value
\* rounded half to even to T = 10 * Q * 2^u tenths
DoubleText(minus, Q, u) ==
    LET bits == IF Q = PowerOfTwo(53) THEN 54 ELSE 53
        W == Mul(Magnitude(10), Q)
    IN  IF bits + u > 1024
        THEN Returned((IF minus THEN <<HyphenMinus>> ELSE <<>>) \o InfPercent)
        ELSE IF u >= 0 THEN Returned(TenthsText(minus, Mul(W, PowerOfTwo(u))))
        ELSE Returned(TenthsText(minus,
                 RoundHalfEven(W, PowerOfTwo(0 - u), DivPow2(W, 0 - u))))

\* the double Q * 2^u that is N * 2^(u - g) rounded to 53 bits, for N of 59
\* (g = 6) or 60 (g = 7) bits
RoundDouble(minus, N, g, u) ==
    DoubleText(minus, RoundHalfEven(N, Magnitude(Pow2(g)), ShortDiv(N, Pow2(g))), u)

\* format type "%" multiplies the double M * 2^(t - 52) by 100
TimesHundred(minus, N, t) ==
    RoundDouble(minus, N, IF Cmp(N, PowerOfTwo(59)) >= 0 THEN 7 ELSE 6,
                (IF Cmp(N, PowerOfTwo(59)) >= 0 THEN 7 ELSE 6) + t - 52)

\* the quotient rounded to the double M * 2^(t - 52): OverflowError when that
\* is 2^1024
Rounded(minus, M, t) ==
    IF t = 1023 /\ M = PowerOfTwo(53) THEN Raised("OverflowError")
    ELSE TimesHundred(minus, Mul(Magnitude(100), M), t)

\* A / B, with 2^52 <= A / B < 2^53, rounded half to even to a natural number
RoundQuotient(A, B) == RoundHalfEven(A, B, Quotient(A, B, PowerOfTwo(52), 51, 0))

\* E / P for 2^t <= E / P < 2^(t+1): the double M * 2^(t - 52), where M is
\* E * 2^(52 - t) / P rounded half to even to a natural number
Divide(minus, E, P, t) ==
    Rounded(minus,
            RoundQuotient(IF t < 52 THEN Mul(E, PowerOfTwo(52 - t)) ELSE E,
                          IF t > 52 THEN Mul(P, PowerOfTwo(t - 52)) ELSE P),
            t)

\* RateText for magnitudes E and P of any size.  A quotient below 1/2500
\* gives "0.0%", one of 2^1024 or more OverflowError.
BigRateText(minus, E, P) ==
    LET d == Len(E) - Len(P)
        \* Base^(d-1) < E / P < Base^(d+1), and 2^9 < Base < 2^10
        low == IF d - 1 >= 0 THEN 9 * (d - 1) ELSE 10 * (d - 1)
        high == IF d + 1 >= 0 THEN 10 * (d + 1) ELSE 9 * (d + 1)
    IN  IF Cmp(Mul(Magnitude(2500), E), P) < 0 THEN Returned(TenthsText(minus, <<>>))
        ELSE IF high > 1024 /\ Cmp(E, Mul(PowerOfTwo(1024), P)) >= 0
             THEN Raised("OverflowError")
        ELSE Divide(minus, E, P,
                    Exponent(E, P, IF low < 0 - 12 THEN 0 - 12 ELSE low,
                                   IF high > 1024 THEN 1024 ELSE high))

\* rate = errors / processed followed by f"{rate:.1%}", for Python integers:
\* Raised("ZeroDivisionError") or Raised("OverflowError") from the division,
\* else Returned(the text).  The division of two integers returns the double
\* nearest to the quotient, half to even.
RateText(errors, processed) ==
    LET minus == IF errors.mag = <<>> THEN processed.neg ELSE errors.neg # processed.neg
        Small(a) == Limb(a, 1) + Base * Limb(a, 2) + Base * Base * Limb(a, 3)
    IN  IF processed.mag = <<>> THEN Raised("ZeroDivisionError")
        ELSE IF Len(errors.mag) <= 2 /\ Len(processed.mag) <= 3
             THEN SmallRateText(minus, Small(errors.mag), Small(processed.mag))
             ELSE BigRateText(minus, errors.mag, processed.mag)

\* AdviceBeforeRate with the draft-status advice keyed on the future-dated count
AdviceBeforeRateDraftMiskeyed(s) ==
    (IF s.missing_backticks # {}
     THEN <<[kind |-> "backticks", types |-> sorted(s.missing_backticks)]>>
     ELSE <<>>)
    \o (IF s.oscillation_messages # <<>> THEN <<[kind |-> "oscillation"]>> ELSE <<>>)
    \o (IF s.future_dated_metadata_notes # 0 THEN <<[kind |-> "future_dated"]>> ELSE <<>>)
    \o (IF s.future_dated_metadata_notes # 0 THEN <<[kind |-> "draft_status"]>> ELSE <<>>)
    \o (IF s.unacceptable_control_codes # {}
        THEN <<[kind |-> "control_codes",
                codes |-> sorted(s.unacceptable_control_codes)]>>
        ELSE <<>>)
    \o (IF s.recursion_limit_hits # 0 THEN <<[kind |-> "recursion_limit"]>> ELSE <<>>)
    \o (IF s.qa_verification_none_errors # 0 THEN <<[kind |-> "qa_none"]>> ELSE <<>>)

\* the advice collected before the last `if` of recommendations
AdviceBeforeRate(s) ==
    (IF s.missing_backticks # {}
     THEN <<[kind |-> "backticks", types |-> sorted(s.missing_backticks)]>>
     ELSE <<>>)
    \o (IF s.oscillation_messages # <<>> THEN <<[kind |-> "oscillation"]>> ELSE <<>>)
    \o (IF s.future_dated_metadata_notes # 0 THEN <<[kind |-> "future_dated"]>> ELSE <<>>)
    \o (IF s.draft_status_notes # 0 THEN <<[kind |-> "draft_status"]>> ELSE <<>>)
    \o (IF s.unacceptable_control_codes # {}
        THEN <<[kind |-> "control_codes",
                codes |-> sorted(s.unacceptable_control_codes)]>>
        ELSE <<>>)
    \o (IF s.recursion_limit_hits # 0 THEN <<[kind |-> "recursion_limit"]>> ELSE <<>>)
    \o (IF s.qa_verification_none_errors # 0 THEN <<[kind |-> "qa_none"]>> ELSE <<>>)

\* the last `if` of recommendations taken, rate being RateText and errors and
\* processed the str() of the two integers
Systemic(s, rate, errors, processed) ==
    IF rate.state = "raised" THEN rate
    ELSE IF ~errors.ok \/ ~processed.ok THEN Raised("ValueError")
    ELSE Returned(Append(AdviceBeforeRate(s),
             [kind |-> "systemic",
              errors |-> errors.text,
              processed |-> processed.text,
              rate |-> rate.value]))

\* IssueSummary.recommendations(self): Returned(advice), or the exception of
\* notes_with_errors / notes_processed (ZeroDivisionError, OverflowError) or
\* of the f-string that holds the two integers (ValueError)
recommendations(s) ==
    IF /\ s.notes_processed.some
       /\ s.notes_with_errors.some
       /\ Positive(s.notes_with_errors.val)
    THEN Systemic(s, RateText(s.notes_with_errors.val, s.notes_processed.val),
                  str(s.notes_with_errors.val), str(s.notes_processed.val))
    ELSE Returned(AdviceBeforeRate(s))

\* errors = summary.notes_with_errors or 0
ErrorsOrZero(s) ==
    IF s.notes_with_errors.some /\ s.notes_with_errors.val.mag # <<>>
    THEN s.notes_with_errors.val ELSE Integer(0)

\* the lines render_report has appended when it calls summary.recommendations()
SectionLines(s) ==
    <<[kind |-> "title"], [kind |-> "rule"]>>
    \o (IF s.notes_processed.some
        THEN <<[kind |-> "processed",
                processed |-> str(s.notes_processed.val).text,
                errors |-> str(ErrorsOrZero(s)).text]>>
        ELSE <<>>)
    \o (IF s.oscillation_messages # <<>>
        THEN <<[kind |-> "blank"], [kind |-> "oscillation_header"]>>
             \o [i \in 1..Len(s.oscillation_messages) |->
                    [kind |-> "oscillation", msg |-> s.oscillation_messages[i]]]
        ELSE <<>>)
    \o (IF s.missing_backticks # {}
        THEN <<[kind |-> "blank"],
               [kind |-> "missing_backticks", types |-> sorted(s.missing_backticks)]>>
        ELSE <<>>)
    \o (IF s.unacceptable_control_codes # {}
        THEN <<[kind |-> "control_codes",
                codes |-> sorted(s.unacceptable_control_codes)]>>
        ELSE <<>>)
    \o (IF s.recursion_limit_hits # 0
        THEN <<[kind |-> "recursion_limit", count |-> s.recursion_limit_hits]>>
        ELSE <<>>)
    \o (IF s.qa_verification_none_errors # 0
        THEN <<[kind |-> "qa_none", count |-> s.qa_verification_none_errors]>>
        ELSE <<>>)
    \o (IF s.future_dated_metadata_notes # 0
        THEN <<[kind |-> "future_dated", count |-> s.future_dated_metadata_notes]>>
        ELSE <<>>)
    \o (IF s.draft_status_notes # 0
        THEN <<[kind |-> "draft_status", count |-> s.draft_status_notes]>>
        ELSE <<>>)

\* the recommendations block of render_report for a non-empty advice list
AdviceLines(items) ==
    <<[kind |-> "blank"], [kind |-> "recommendations_header"]>>
    \o [i \in 1..Len(items) |-> [kind |-> "recommendation", item |-> items[i]]]

\* render_report from `if advice := summary.recommendations()` on
Recommend(s, result) ==
    IF result.state = "raised" THEN result
    ELSE IF result.value # <<>>
         THEN Returned(SectionLines(s) \o AdviceLines(result.value))
         ELSE Returned(SectionLines(s))

\* render_report(summary): Returned(the report's lines), or the exception of
\* the f-string of the processed-notes line (ValueError) or of
\* summary.recommendations()
render_report(s) ==
    IF /\ s.notes_processed.some
       /\ (~str(s.notes_processed.val).ok \/ ~str(ErrorsOrZero(s)).ok)
    THEN Raised("ValueError")
    ELSE Recommend(s, recommendations(s))

----------------------------------------------------------------------------
(* Inputs *)

SeqsUpTo(S, n) == UNION {[1..k -> S] : k \in 0..n}

RECURSIVE Concat(_)
Concat(parts) == IF parts = <<>> THEN <<>> ELSE Head(parts) \o Concat(Tail(parts))

\* 10^n
TenTo(n) ==
    [neg |-> FALSE,
     mag |-> [k \in 1..(n \div 3 + 1) |->
                 IF k <= n \div 3 THEN 0
                 ELSE IF n % 3 = 0 THEN 1 ELSE IF n % 3 = 1 THEN 10 ELSE 100]]

\* "Type name 'Flow' found without backticks: argument of type 'NoneType' is not iterable"
LineBackticksNoneType ==
  <<84, 121, 112, 101, 32, 110, 97, 109, 101, 32, 39, 70, 108, 111, 119,
     39, 32, 102, 111, 117, 110, 100, 32, 119, 105, 116, 104, 111, 117,
     116, 32, 98, 97, 99, 107, 116, 105, 99, 107, 115, 58, 32, 97, 114,
     103, 117, 109, 101, 110, 116, 32, 111, 102, 32, 116, 121, 112, 101,
     32, 39, 78, 111, 110, 101, 84, 121, 112, 101, 39, 32, 105, 115, 32,
     110, 111, 116, 32, 105, 116, 101, 114, 97, 98, 108, 101>>
\* "Oscillation detected: Flow"
LineOscillation ==
  <<79, 115, 99, 105, 108, 108, 97, 116, 105, 111, 110, 32, 100, 101, 116,
     101, 99, 116, 101, 100, 58, 32, 70, 108, 111, 119>>
\* "WARN Oscillation detected"
LineOscillationPrefixed ==
  <<87, 65, 82, 78, 32, 79, 115, 99, 105, 108, 108, 97, 116, 105, 111, 110,
     32, 100, 101, 116, 101, 99, 116, 101, 100>>
\* "Oscillation detected\nagain": one line holding a line feed
LineOscillationBroken ==
  <<79, 115, 99, 105, 108, 108, 97, 116, 105, 111, 110, 32, 100, 101, 116,
     101, 99, 116, 101, 100, 10, 97, 103, 97, 105, 110>>
\* "unacceptable character #x000C Recursion limit of 2\u0665 reached", the
\* last digit being ARABIC-INDIC DIGIT FIVE
LineControlRecursion ==
  <<117, 110, 97, 99, 99, 101, 112, 116, 97, 98, 108, 101, 32, 99, 104, 97,
     114, 97, 99, 116, 101, 114, 32, 35, 120, 48, 48, 48, 67, 32, 82,
     101, 99, 117, 114, 115, 105, 111, 110, 32, 108, 105, 109, 105, 116,
     32, 111, 102, 32, 50, 1637, 32, 114, 101, 97, 99, 104, 101, 100>>
\* "\u017ftatus set to 'DRAFT'; future-loo\u212aing dates", written with
\* LATIN SMALL LETTER LONG S and KELVIN SIGN
LineDraftFuture ==
  <<383, 116, 97, 116, 117, 115, 32, 115, 101, 116, 32, 116, 111, 32, 39,
     68, 82, 65, 70, 84, 39, 59, 32, 102, 117, 116, 117, 114, 101, 45,
     108, 111, 111, 8490, 105, 110, 103, 32, 100, 97, 116, 101, 115>>
\* "│ Notes Processed │ 0 │"
LineProcessedZero ==
  <<9474, 32, 78, 111, 116, 101, 115, 32, 80, 114, 111, 99, 101, 115, 115,
     101, 100, 32, 9474, 32, 48, 32, 9474>>
\* "│ Errors │ 3 │"
LineErrorsThree ==
  <<9474, 32, 69, 114, 114, 111, 114, 115, 32, 9474, 32, 51, 32, 9474>>
\* "Notes Processed: n/a"
LineProcessedNoInt ==
  <<78, 111, 116, 101, 115, 32, 80, 114, 111, 99, 101, 115, 115, 101, 100,
     58, 32, 110, 47, 97>>
\* "Metric Errors 5"
LineMetricErrors ==
  <<77, 101, 116, 114, 105, 99, 32, 69, 114, 114, 111, 114, 115, 32, 53>>
\* "Notes Processed 8 Errors\u00a0\u0662": a NO-BREAK SPACE before
\* ARABIC-INDIC DIGIT TWO
LineProcessedErrors ==
  <<78, 111, 116, 101, 115, 32, 80, 114, 111, 99, 101, 115, 115, 101, 100,
     32, 56, 32, 69, 114, 114, 111, 114, 115, 160, 1634>>

\* "Errors 1000...0", the number being 10^309, which is beyond the doubles
LineErrorsHuge == ErrorsText \o <<32>> \o Decimal(TenTo(309).mag)

Corpus ==
    {LineBackticksNoneType, LineOscillation, LineOscillationPrefixed,
     LineOscillationBroken, LineControlRecursion, LineDraftFuture, LineProcessedZero,
     LineErrorsThree, LineProcessedNoInt, LineMetricErrors, LineProcessedErrors,
     LineErrorsHuge}

\* the lines splitlines can produce hold no line boundary
FileCorpus == {l \in Corpus : \A i \in 1..Len(l) : ~IsLineBreak(l[i])}

\* IssueSummary values
Messages == {LineOscillation, OscillationHead}
TypeNames == {<<70, 108, 111, 119>>, <<65, 108, 112, 104, 97>>}
ControlCodeSets == {{}, {<<48, 48, 48, 99>>}, {<<48, 48, 48, 99>>, <<48, 48, 48, 52>>}}
\* 1 error in 2000 notes is a rate midway between 0.0% and 0.1%
Metrics ==
    {None} \cup {Some(Integer(v)) : v \in (0 - 1)..MaxMetric} \cup {Some(Integer(2000))}

\* 10^308 is a double, 100 times it is not; 10^309 is beyond the doubles;
\* 10^4300 has 4301 digits
HugeMetrics == {Some(TenTo(308)), Some(TenTo(309)), Some(TenTo(4300))}

HugeSummaries ==
    {[IssueSummary EXCEPT !.notes_with_errors = e, !.notes_processed = p] :
        e \in HugeMetrics \cup {None},
        p \in HugeMetrics \cup {Some(Integer(1)), Some(Integer(0 - 3))}}

SmallSummaries ==
    [oscillation_messages : SeqsUpTo(Messages, MaxOscillations),
     missing_backticks : SUBSET TypeNames,
     unacceptable_control_codes : ControlCodeSets,
     recursion_limit_hits : 0..MaxCount,
     qa_verification_none_errors : 0..MaxCount,
     draft_status_notes : 0..MaxCount,
     future_dated_metadata_notes : 0..MaxCount,
     notes_processed : Metrics,
     notes_with_errors : Metrics]

Summaries == SmallSummaries \cup HugeSummaries

\* pieces of input text
Fragments ==
    {<<69, 114, 114, 111, 114, 115, 32, 51>>, <<32, 77, 101, 116, 114, 105, 99>>, <<78, 111, 116, 101, 115, 32, 80, 114, 111, 99, 101, 115, 115, 101,
     100>>, <<32, 53>>, OscillationHead, <<120>>,
     <<10>>, <<13>>, <<12>>, <<8232>>}

Texts == {Concat(parts) : parts \in SeqsUpTo(Fragments, MaxFragments)}

----------------------------------------------------------------------------
(* main, and analyse_lines followed by render_report *)

MainIdle ==
    /\ caller = "none" /\ pc = "idle" /\ argv = <<>> /\ file = "none" /\ lines = <<>>
    /\ idx = 1 /\ summary = IssueSummary /\ report = NotCalled /\ stdout = <<>>
    /\ status = None /\ error = ""

SummaryIdle == given = IssueSummary /\ advice = NotCalled /\ rendered = NotCalled

TextIdle ==
    text = <<>> /\ fromText = NotCalled /\ fromLines = NotCalled /\ fromFile = NotCalled

\* the words of a command line: the help flags, an option the parser does not
\* define, and a path
HelpFlags == {"-h", "--help"}
UnknownOptions == {"-x"}
Paths == {"run.log"}
ArgTokens == HelpFlags \cup UnknownOptions \cup Paths

\* parser.parse_args(argv) for the parser of _build_arg_parser, with its one
\* positional log_file: a help flag anywhere prints the help and exits with
\* status 0; otherwise anything but exactly one path is a usage error, which
\* exits with status 2
parse_args(args) ==
    LET positionals == SelectSeq(args, LAMBDA a : a \in Paths)
    IN  IF \E i \in 1..Len(args) : args[i] \in HelpFlags THEN [outcome |-> "help"]
        ELSE IF (\E i \in 1..Len(args) : args[i] \in UnknownOptions)
                \/ Len(positionals) # 1
             THEN [outcome |-> "usage_error"]
             ELSE [outcome |-> "parsed", log_file |-> positionals[1]]

\* what the help action prints on stdout
HelpText == <<[kind |-> "help"]>>

\* the path names a file of UTF-8 text, nothing that can be opened, or a file
\* whose bytes are not UTF-8
FileKinds == {"utf8", "unreadable", "not_utf8"}

\* the exception of path.read_text(encoding="utf-8")
ReadError(f) == IF f = "unreadable" THEN "OSError" ELSE "UnicodeDecodeError"

\* main runs on every command line; a file holds any text without line
\* boundary as a line.  The other inputs reach analyse_lines by a direct call,
\* followed by render_report.
Init ==
    /\ \/ /\ caller = "main" /\ pc = "parse"
          /\ argv \in SeqsUpTo(ArgTokens, MaxArgs)
          /\ file \in FileKinds
          /\ lines \in IF parse_args(argv).outcome = "parsed" /\ file = "utf8"
                       THEN SeqsUpTo(FileCorpus, MaxLines)
                       ELSE {<<>>}
       \/ /\ caller = "analyse_lines" /\ pc = "start"
          /\ argv = <<>> /\ file = "none"
          /\ lines \in SeqsUpTo(Corpus, MaxLines) \ SeqsUpTo(FileCorpus, MaxLines)
    /\ idx = 1
    /\ summary = IssueSummary
    /\ report = NotCalled
    /\ stdout = <<>>
    /\ status = None
    /\ error = ""
    /\ SummaryIdle
    /\ TextIdle

\* main: parser.parse_args(argv) finds a help flag: the help is printed and
\* SystemExit(0) leaves main
ParseHelp ==
    /\ pc = "parse" /\ parse_args(argv).outcome = "help"
    /\ stdout' = Append(stdout, HelpText)
    /\ status' = Some(0)
    /\ error' = "SystemExit"
    /\ pc' = "exited"
    /\ UNCHANGED <<caller, argv, file, lines, idx, summary, report>>
    /\ UNCHANGED <<summaryVars, textVars>>

\* main: parser.parse_args(argv) rejects the command line: usage and message go
\* to stderr and SystemExit(2) leaves main
ParseFails ==
    /\ pc = "parse" /\ parse_args(argv).outcome = "usage_error"
    /\ status' = Some(2)
    /\ error' = "SystemExit"
    /\ pc' = "exited"
    /\ UNCHANGED <<caller, argv, file, lines, idx, summary, report, stdout>>
    /\ UNCHANGED <<summaryVars, textVars>>

\* main: args = parser.parse_args(argv)
ParseArgs ==
    /\ pc = "parse" /\ parse_args(argv).outcome = "parsed"
    /\ pc' = "start"
    /\ UNCHANGED <<caller, argv, file, lines, idx, summary, report, stdout, status, error>>
    /\ UNCHANGED <<summaryVars, textVars>>

\* ReadFails with the read failure caught and treated as an empty log
ReadFailsSwallowed ==
    /\ pc = "start" /\ caller = "main" /\ file # "utf8"
    /\ pc' = "scanned"
    /\ summary' = IssueSummary
    /\ UNCHANGED <<caller, argv, file, lines, idx, report, stdout, status, error>>
    /\ UNCHANGED <<summaryVars, textVars>>

\* main: analyse_log_file(args.log_file) when path.read_text raises; the
\* exception leaves main and the interpreter exits with status 1
ReadFails ==
    /\ pc = "start" /\ caller = "main" /\ file # "utf8"
    /\ pc' = "raised"
    /\ error' = ReadError(file)
    /\ status' = Some(1)
    /\ UNCHANGED <<caller, argv, file, lines, idx, summary, report, stdout>>
    /\ UNCHANGED <<summaryVars, textVars>>

\* analyse_lines is entered (from main through analyse_log_file and
\* analyse_log_text once the file is read): summary = IssueSummary()
BeginScan ==
    /\ pc = "start" /\ (caller = "main" => file = "utf8")
    /\ pc' = "scan"
    /\ idx' = 1
    /\ summary' = IssueSummary
    /\ UNCHANGED <<caller, argv, file, lines, report, stdout, status, error>>
    /\ UNCHANGED <<summaryVars, textVars>>

\* one iteration of `for line in lines`
ScanStep ==
    /\ pc = "scan" /\ idx <= Len(lines)
    /\ summary' = ScanLine(summary, lines[idx])
    /\ idx' = idx + 1
    /\ UNCHANGED <<caller, pc, argv, file, lines, report, stdout, status, error>>
    /\ UNCHANGED <<summaryVars, textVars>>

\* `return summary`
EndScan ==
    /\ pc = "scan" /\ idx > Len(lines)
    /\ pc' = "scanned"
    /\ UNCHANGED <<caller, argv, file, lines, idx, summary, report, stdout, status, error>>
    /\ UNCHANGED <<summaryVars, textVars>>

\* render_report(summary); an exception leaves the caller (main exits with 1)
Render ==
    /\ pc = "scanned"
    /\ report' = render_report(summary)
    /\ IF report'.state = "raised"
       THEN /\ pc' = "raised"
            /\ error' = report'.error
            /\ status' = IF caller = "main" THEN Some(1) ELSE status
       ELSE /\ pc' = "rendered"
            /\ UNCHANGED <<error, status>>
    /\ UNCHANGED <<caller, argv, file, lines, idx, summary, stdout>>
    /\ UNCHANGED <<summaryVars, textVars>>

\* main: print(render_report(summary))
PrintReport ==
    /\ pc = "rendered" /\ caller = "main"
    /\ stdout' = Append(stdout, report.value)
    /\ pc' = "printed"
    /\ UNCHANGED <<caller, argv, file, lines, idx, summary, report, status, error>>
    /\ UNCHANGED <<summaryVars, textVars>>

\* main: return 0
ReturnZero ==
    /\ pc = "printed"
    /\ status' = Some(0)
    /\ pc' = "done"
    /\ UNCHANGED <<caller, argv, file, lines, idx, summary, report, stdout, error>>
    /\ UNCHANGED <<summaryVars, textVars>>

Next ==
    \/ ParseHelp
    \/ ParseFails
    \/ ParseArgs
    \/ ReadFails
    \/ BeginScan
    \/ ScanStep
    \/ EndScan
    \/ Render
    \/ PrintReport
    \/ ReturnZero

Spec == Init /\ [][Next]_vars

----------------------------------------------------------------------------
(* recommendations and render_report on any IssueSummary *)

InitSummary ==
    /\ given \in Summaries
    /\ advice = NotCalled
    /\ rendered = NotCalled
    /\ MainIdle
    /\ TextIdle

CallRecommendations ==
    /\ advice = NotCalled
    /\ advice' = recommendations(given)
    /\ UNCHANGED <<given, rendered, mainVars, textVars>>

CallRenderReport ==
    /\ rendered = NotCalled
    /\ rendered' = render_report(given)
    /\ UNCHANGED <<given, advice, mainVars, textVars>>

NextSummary ==
    \/ CallRecommendations
    \/ CallRenderReport

SpecSummary == InitSummary /\ [][NextSummary]_vars

----------------------------------------------------------------------------
(* the three entry points on one text *)

InitText ==
    /\ text \in Texts
    /\ fromText = NotCalled
    /\ fromLines = NotCalled
    /\ fromFile = NotCalled
    /\ SummaryIdle
    /\ caller = "none" /\ pc = "idle" /\ argv = <<>> /\ file = "none" /\ idx = 1
    /\ lines = splitlines(text)
    /\ summary = IssueSummary /\ report = NotCalled /\ stdout = <<>>
    /\ status = None /\ error = ""

CallAnalyseLogText ==
    /\ fromText = NotCalled
    /\ fromText' = Returned(analyse_log_text(text))
    /\ UNCHANGED <<text, fromLines, fromFile, mainVars, summaryVars>>

\* analyse_lines on the text split into lines by the caller
CallAnalyseLines ==
    /\ fromLines = NotCalled
    /\ fromLines' = Returned(analyse_lines(lines))
    /\ UNCHANGED <<text, fromText, fromFile, mainVars, summaryVars>>

\* analyse_log_file on a readable file that holds the text
CallAnalyseLogFile ==
    /\ fromFile = NotCalled
    /\ fromFile' = Returned(analyse_log_file(text))
    /\ UNCHANGED <<text, fromText, fromLines, mainVars, summaryVars>>

NextText ==
    \/ CallAnalyseLogText
    \/ CallAnalyseLines
    \/ CallAnalyseLogFile

SpecText == InitText /\ [][NextText]_vars

----------------------------------------------------------------------------
(* Properties *)

Kinds(ls) == [i \in 1..Len(ls) |-> ls[i].kind]
HasLine(ls, k) == \E i \in 1..Len(ls) : ls[i].kind = k
HasAdvice(ls, k) ==
    \E i \in 1..Len(ls) : ls[i].kind = "recommendation" /\ ls[i].item.kind = k

\* the scan of analyse_lines has returned
ScanDone ==
    \/ pc \in {"scanned", "rendered", "printed", "done"}
    \/ error \in {"ZeroDivisionError", "OverflowError", "ValueError"}

\* the lines the loop of analyse_lines has processed
Processed == SubSeq(lines, 1, idx - 1)

Count(ls, Test(_)) == Cardinality({i \in 1..Len(ls) : Test(ls[i])})

\* C1: analyse_lines followed by render_report always returns a report; no
\* Summary the analyzer produces makes render_report or recommendations fail,
\* also when the scan leaves notes_processed = 0 and notes_with_errors > 0.
C1_RenderNeverFails ==
    /\ report.state # "raised"
    /\ pc \in {"rendered", "printed", "done"} => report.state = "returned"
    /\ error \notin {"ZeroDivisionError", "OverflowError", "ValueError"}

\* b holds everything a holds: counts not smaller, sets not smaller, the
\* messages of a a prefix of those of b, metrics present in a present in b
Grows(a, b) ==
    /\ b.recursion_limit_hits >= a.recursion_limit_hits
    /\ b.qa_verification_none_errors >= a.qa_verification_none_errors
    /\ b.draft_status_notes >= a.draft_status_notes
    /\ b.future_dated_metadata_notes >= a.future_dated_metadata_notes
    /\ a.missing_backticks \subseteq b.missing_backticks
    /\ a.unacceptable_control_codes \subseteq b.unacceptable_control_codes
    /\ Len(b.oscillation_messages) >= Len(a.oscillation_messages)
    /\ SubSeq(b.oscillation_messages, 1, Len(a.oscillation_messages))
           = a.oscillation_messages
    /\ a.notes_processed.some => b.notes_processed.some
    /\ a.notes_with_errors.some => b.notes_with_errors.some

\* C2: during a scan, processing a line never lowers a count, never removes an
\* element of missing_backticks or unacceptable_control_codes, keeps the
\* previous oscillation_messages as a prefix, and never makes a present
\* notes_processed or notes_with_errors absent.
C2_ScanOnlyGrows == [][pc = "scan" /\ pc' = "scan" => Grows(summary, summary')]_vars

\* a present notes_processed has survived a "Notes Processed" line without integer
C2_Witness ==
    /\ pc = "scan" /\ idx = 3
    /\ lines[1] = LineProcessedZero /\ lines[2] = LineProcessedNoInt
    /\ summary.notes_processed = Some(Integer(0))

\* the last-integer extraction of each line of the corpus
LastInt == [l \in Corpus |-> extract_last_int_from(l)]

\* the lines that contain "Notes Processed" and have an integer token
ProcessedMetricLines == {l \in Corpus : Contains(NotesProcessedText, l) /\ LastInt[l].some}

\* the lines that contain "Errors", not "Metric", and have an integer token
ErrorsMetricLines ==
    {l \in Corpus : Contains(ErrorsText, l) /\ ~Contains(MetricText, l) /\ LastInt[l].some}

\* the extraction of the last line of ls that is in Qualifying; None without one
LastSeen(ls, Qualifying) ==
    LET I == {i \in 1..Len(ls) : ls[i] \in Qualifying}
    IN  IF I = {} THEN None ELSE LastInt[ls[MaxOf(I)]]

\* C3: after the lines processed so far (so after the scan), notes_processed is
\* the last-integer extraction of the last line that contains "Notes Processed"
\* and has an integer token, and notes_with_errors that of the last line that
\* contains "Errors", not "Metric", and has an integer token; both are unset
\* when there is no such line.  Qualifying lines without an integer change nothing.
C3_LastSeenWins ==
    /\ summary.notes_processed = LastSeen(Processed, ProcessedMetricLines)
    /\ summary.notes_with_errors = LastSeen(Processed, ErrorsMetricLines)

\* a smaller value has overwritten a larger one, and a later metric line
\* without integer has left both values alone
C3_Witness ==
    /\ pc = "scanned"
    /\ lines = <<LineErrorsThree, LineProcessedErrors, LineProcessedNoInt>>
    /\ summary.notes_with_errors = Some(Integer(2))
    /\ summary.notes_processed = Some(Integer(2))

RecommendationOrder ==
    <<"backticks", "oscillation", "future_dated", "draft_status", "control_codes",
      "recursion_limit", "qa_none", "systemic">>

Trigger(s, k) ==
    CASE k = "backticks" -> s.missing_backticks # {}
      [] k = "oscillation" -> s.oscillation_messages # <<>>
      [] k = "future_dated" -> s.future_dated_metadata_notes > 0
      [] k = "draft_status" -> s.draft_status_notes > 0
      [] k = "control_codes" -> s.unacceptable_control_codes # {}
      [] k = "recursion_limit" -> s.recursion_limit_hits > 0
      [] k = "qa_none" -> s.qa_verification_none_errors > 0
      [] k = "systemic" -> /\ s.notes_processed.some
                           /\ s.notes_with_errors.some
                           /\ Positive(s.notes_with_errors.val)

TriggeredAdvice(s) ==
    LET Fires(k) == Trigger(s, k) IN SelectSeq(RecommendationOrder, Fires)

\* C4: for every Summary, recommendations() returns exactly the
\* recommendations whose trigger holds, each once, in the fixed order.
C4_AdviceIffTriggered ==
    advice # NotCalled =>
        /\ advice.state = "returned"
        /\ Kinds(advice.value) = TriggeredAdvice(given)

SectionOrder ==
    <<"title", "processed", "oscillation_header", "missing_backticks", "control_codes",
      "recursion_limit", "qa_none", "future_dated", "draft_status",
      "recommendations_header">>

SectionDue(s, k) ==
    CASE k = "title" -> TRUE
      [] k = "processed" -> s.notes_processed.some
      [] k = "oscillation_header" -> s.oscillation_messages # <<>>
      [] k = "missing_backticks" -> s.missing_backticks # {}
      [] k = "control_codes" -> s.unacceptable_control_codes # {}
      [] k = "recursion_limit" -> s.recursion_limit_hits > 0
      [] k = "qa_none" -> s.qa_verification_none_errors > 0
      [] k = "future_dated" -> s.future_dated_metadata_notes > 0
      [] k = "draft_status" -> s.draft_status_notes > 0
      [] k = "recommendations_header" -> TriggeredAdvice(s) # <<>>

IsSection(k) == \E i \in DOMAIN SectionOrder : SectionOrder[i] = k

\* C5: for every Summary, render_report emits the sections in the fixed order,
\* each optional section exactly when its field is non-empty, non-zero or
\* present; the processed-notes line shows errors as 0 when notes_with_errors
\* is absent; the report of the empty Summary is the banner only.
C5_SectionsInTemplateOrder ==
    rendered # NotCalled =>
        /\ rendered.state = "returned"
        /\ LET Due(k) == SectionDue(given, k)
           IN  SelectSeq(Kinds(rendered.value), IsSection) = SelectSeq(SectionOrder, Due)
        /\ \A i \in 1..Len(rendered.value) :
              (rendered.value[i].kind = "processed" /\ ~given.notes_with_errors.some)
                  => rendered.value[i].errors = <<48>>
        /\ given = IssueSummary => Kinds(rendered.value) = <<"title", "rule">>

BeginningWithOscillation == {l \in Corpus : StartsAt(OscillationHead, l, 1)}
BeginsWithOscillation(l) == l \in BeginningWithOscillation

Bullets(ls) ==
    LET IsBullet(x) == x.kind = "oscillation"
        B == SelectSeq(ls, IsBullet)
    IN  [i \in 1..Len(B) |-> B[i].msg]

\* C6: after a scan, oscillation_messages is the full text of the input lines
\* that begin with "Oscillation detected", in encounter order with duplicates;
\* other lines contribute nothing; render_report, once called on the scan's
\* Summary, lists the entries one bullet each in that order.
C6_FullTextOfLinesBeginning ==
    ScanDone =>
        /\ summary.oscillation_messages = SelectSeq(lines, BeginsWithOscillation)
        /\ report # NotCalled =>
              /\ report.state = "returned"
              /\ Bullets(report.value) = summary.oscillation_messages

\* a scan whose entries are as C6 says (one line, beginning with the phrase,
\* kept in full) and whose Summary makes render_report raise: no bullet is listed
C6_Witness ==
    /\ lines = <<LineOscillation, LineErrorsThree, LineProcessedZero>>
    /\ summary.oscillation_messages = SelectSeq(lines, BeginsWithOscillation)
    /\ summary.oscillation_messages = <<LineOscillation>>
    /\ report = Raised("ZeroDivisionError")

ContainingOscillation == {l \in Corpus : Contains(OscillationHead, l)}
ContainsOscillation(l) == l \in ContainingOscillation

\* for each line that contains "Oscillation detected": its part from the first
\* occurrence of the phrase to the end of the line, or to just before the
\* first line feed after the phrase
FromOscillation ==
    [l \in ContainingOscillation |->
        LET a == MinOf({i \in 1..Len(l) : StartsAt(OscillationHead, l, i)})
            b == MaxOf({j \in (a + Len(OscillationHead) - 1)..Len(l) :
                           \A k \in (a + Len(OscillationHead))..j : l[k] # LineFeed})
        IN  SubSeq(l, a, b)]

\* what the scan and render_report do with oscillation lines: one entry for
\* each line that contains "Oscillation detected" anywhere, the text from the
\* first occurrence of the phrase to the end of the line (to the first line
\* feed after the phrase), in encounter order with duplicates; a report that is
\* returned lists them one bullet each in that order
OscillationEntriesFromPhrase ==
    ScanDone =>
        /\ LET Hits == SelectSeq(lines, ContainsOscillation)
           IN  summary.oscillation_messages
                   = [i \in 1..Len(Hits) |-> FromOscillation[Hits[i]]]
        /\ report.state = "returned" => Bullets(report.value) = summary.oscillation_messages

\* C7: analyse_log_text(text), analyse_lines on the text pre-split into lines
\* and analyse_log_file on a file holding the text return equal Summaries.
C7_EntryPointsAgree ==
    /\ (fromText # NotCalled /\ fromLines # NotCalled) => fromText = fromLines
    /\ (fromText # NotCalled /\ fromFile # NotCalled) => fromText = fromFile
    /\ (fromLines # NotCalled /\ fromFile # NotCalled) => fromLines = fromFile

\* a carriage return separates "Errors 3" from " Metric": all three entry
\* points read two lines and take the 3
C7_Witness ==
    /\ text = <<69, 114, 114, 111, 114, 115, 32, 51, 13, 32, 77, 101, 116, 114, 105,
     99>>
    /\ fromText # NotCalled /\ fromLines # NotCalled /\ fromFile # NotCalled
    /\ fromFile.value.notes_with_errors = Some(Integer(3))

\* main has printed a report, or a part of one
ReportPrinted == \E i \in 1..Len(stdout) : stdout[i] # HelpText

\* C8: when the file cannot be read, analyse_log_file raises without a Summary
\* and main propagates it: no report is printed, main does not return 0, and
\* the run that tried to read ends with the read's exception and status 1.  A
\* report is printed, and 0 returned, only after the file was read and all of
\* its lines were analysed.
C8_ReadFailureIsFatal ==
    /\ (caller = "main" /\ file # "utf8") =>
          /\ pc \in {"parse", "exited", "start", "raised"}
          /\ summary = IssueSummary /\ report = NotCalled
          /\ ~ReportPrinted
          /\ pc = "raised" => (error = ReadError(file) /\ status = Some(1))
          /\ parse_args(argv).outcome = "parsed" => (stdout = <<>> /\ status # Some(0))
    /\ (ReportPrinted \/ pc = "done") =>
          /\ file = "utf8"
          /\ idx = Len(lines) + 1
          /\ report.state = "returned"
          /\ stdout = <<report.value>>
    /\ pc = "done" <=> (caller = "main" /\ status = Some(0) /\ error = "")

\* the file does not exist: the read raised, nothing was printed, status 1
C8_Witness ==
    /\ caller = "main" /\ file = "unreadable"
    /\ pc = "raised" /\ error = "OSError"
    /\ stdout = <<>> /\ status = Some(1)

\* the lines of the corpus that match each counter's pattern
RecursionLimitLines == {l \in Corpus : RECURSION_LIMIT_RE(l).found}
QaNoneLines == {l \in Corpus : Contains(NoneTypeText, l)}
DraftStatusLines == {l \in Corpus : STATUS_DRAFT_RE(l)}
FutureDateLines == {l \in Corpus : FUTURE_DATE_RE(l)}

IsRecursionLimit(l) == l \in RecursionLimitLines
IsQaNone(l) == l \in QaNoneLines
IsDraftStatus(l) == l \in DraftStatusLines
IsFutureDate(l) == l \in FutureDateLines

Hit(b) == IF b THEN 1 ELSE 0

\* the effect of one line on each field, by that field's detector alone
OwnDetectorOnly(a, b, l) ==
    /\ b.recursion_limit_hits = a.recursion_limit_hits + Hit(IsRecursionLimit(l))
    /\ b.qa_verification_none_errors = a.qa_verification_none_errors + Hit(IsQaNone(l))
    /\ b.draft_status_notes = a.draft_status_notes + Hit(IsDraftStatus(l))
    /\ b.future_dated_metadata_notes = a.future_dated_metadata_notes + Hit(IsFutureDate(l))
    /\ b.missing_backticks = DetectMissingBackticks(a, l).missing_backticks
    /\ b.oscillation_messages = DetectOscillation(a, l).oscillation_messages
    /\ b.unacceptable_control_codes = DetectUnacceptableChar(a, l).unacceptable_control_codes
    /\ b.notes_processed = DetectNotesProcessed(a, l).notes_processed
    /\ b.notes_with_errors = DetectErrors(a, l).notes_with_errors

\* C9: processing one line raises each counter by 1 if the line matches that
\* counter's pattern and by 0 otherwise, and changes every other field as its
\* own detector alone would, whatever else matches on the line; so each counter
\* is the number of processed lines that match its pattern.
C9_DetectorsIndependent ==
    /\ [][pc = "scan" /\ pc' = "scan" => OwnDetectorOnly(summary, summary', lines[idx])]_vars
    /\ [](/\ summary.recursion_limit_hits = Count(Processed, IsRecursionLimit)
          /\ summary.qa_verification_none_errors = Count(Processed, IsQaNone)
          /\ summary.draft_status_notes = Count(Processed, IsDraftStatus)
          /\ summary.future_dated_metadata_notes = Count(Processed, IsFutureDate))

\* lines matching two detectors each have been counted by both
C9_Witness ==
    /\ pc = "scanned"
    /\ lines = <<LineDraftFuture, LineControlRecursion, LineDraftFuture>>
    /\ summary.draft_status_notes = 2
    /\ summary.future_dated_metadata_notes = 2
    /\ summary.recursion_limit_hits = 1
    /\ summary.unacceptable_control_codes # {}

AdviceOfSection ==
    {<<"oscillation", "oscillation_header">>, <<"backticks", "missing_backticks">>,
     <<"control_codes", "control_codes">>, <<"recursion_limit", "recursion_limit">>,
     <<"qa_none", "qa_none">>, <<"future_dated", "future_dated">>,
     <<"draft_status", "draft_status">>}

\* C10: in every report render_report returns, the recommendation for a field
\* is present exactly when that field's data section is, and the
\* systemic-issues recommendation only together with the processed-notes line.
C10_AdviceMatchesSections ==
    rendered.state = "returned" =>
        /\ \A p \in AdviceOfSection :
              HasAdvice(rendered.value, p[1]) <=> HasLine(rendered.value, p[2])
        /\ HasAdvice(rendered.value, "systemic") => HasLine(rendered.value, "processed")

\* a report with a draft-status section but no future-dated one, and with the
\* systemic-issues recommendation
C10_Witness ==
    /\ rendered.state = "returned"
    /\ given.draft_status_notes > 0 /\ given.future_dated_metadata_notes = 0
    /\ HasLine(rendered.value, "draft_status") /\ HasAdvice(rendered.value, "draft_status")
    /\ HasAdvice(rendered.value, "systemic")

=============================================================================
